---- MODULE Spec2Model ----
(***************************************************************************)
(* Model of src/main.py: the disposable-mailbox provider (TempMailProvider) *)
(* with its fallback chain mail.tm -> Temp-Mail.org -> Maildrop, the         *)
(* activation poller (AviraAutomation.get_activation_link), one automation  *)
(* run (AviraAutomation.run) and the outer loop of main().                   *)
(*                                                                           *)
(* Strings whose characters matter (message contents, links) are sequences  *)
(* of one-character strings.  Python's None is the string NoneVal.  A       *)
(* network call is an input of the action that makes it: a response record  *)
(* drawn from a set of response shapes, and the seconds the call took.      *)
(*                                                                           *)
(* Specifications: Spec is one run, FairSpec the run with its scheduling,   *)
(* MainSpec main's loop around the runs, LinkSpec the link extraction and   *)
(* ReadSpec read_message, each applied on its own to a set of inputs.       *)
(***************************************************************************)
EXTENDS Integers, Sequences, FiniteSets, TLC

\* ------------------------------------------------------------------ bounds
\* Longest listing a backend returns in the model.
MaxMsgs == 2
\* Longest time one network call takes in the model, in poll intervals.
MaxDelay == 1
\* Largest count entered in fixed-count mode.
MaxCount == 2
\* Longest content searched for a link on its own, in pieces of LinkTokens.
MaxToks == 4
\* The model stops the outer loop after this many runs.
MaxRuns == 2

\* ------------------------------------------------------- program constants
\* get_activation_link: while time.time() - start < 300
Deadline == 300
\* get_activation_link: time.sleep(5)
PollInterval == 5

\* Time is observed in steps of the poll interval: a network call takes a
\* whole number of intervals, from none to MaxDelay.
Latencies == {k * PollInterval : k \in 0..MaxDelay}

NoneVal == "<None>"

MAILTM == "mailtm"
TEMPMAIL_ORG == "tempmail_org"
MAILDROP == "maildrop"
Providers == {MAILTM, TEMPMAIL_ORG, MAILDROP}

\* The hosts the requests go to.
HOST_MAILTM == "api.mail.tm"
HOST_TEMPMAIL == "api.temp-mail.org"
HOST_MAILDROP == "api.maildrop.cc"

\* create_email, Temp-Mail.org fallback: the hardcoded domain list.
DefaultDomains == <<"temp-mail.org", "mailtemp.net">>
\* MaildropDomain with another top-level domain.
MaildropDomain_com == "maildrop.com"

\* create_email, Maildrop fallback: the fixed domain.
MaildropDomain == "maildrop.cc"

\* An address f"{user}@{domain}" is kept as its two parts.
NoEmail == [user |-> NoneVal, domain |-> NoneVal]
Address(user, domain) == [user |-> user, domain |-> domain]

\* random.choices(alphabet, k=10) and k=12: the random user names, by sample.
Users10 == {"user10"}
Users12 == {"user12chars"}
\* random.choices(..., k=16): the random mail.tm password, by sample.
Passwords == {"pw16"}

\* --------------------------------------------------------- character data
\* r'https://my\.avira\.com/en/auth/login\?'
Prefix ==
  << "h","t","t","p","s",":","/","/","m","y",".","a","v","i","r","a",".","c","o","m",
     "/","e","n","/","a","u","t","h","/","l","o","g","i","n","?" >>

\* \s of the pattern
Whitespace == {" ", "\t", "\n", "\r", "\f"}
\* [^\s"<>]: the characters that end the query part
Terminators == Whitespace \cup {"\"", "<", ">"}
\* StripChars with the semicolon forgotten.
StripChars_nosemi == {".", ",", ")"}

\* .rstrip('.,);')
StripChars == {".", ",", ")", ";"}

RECURSIVE RStrip(_)
RStrip(s) ==
  IF s # <<>> /\ s[Len(s)] \in StripChars
    THEN RStrip(SubSeq(s, 1, Len(s) - 1))
    ELSE s

\* The pattern matches at position i: the literal prefix, then at least one
\* query character.
MatchesAt(c, i) ==
  /\ i + Len(Prefix) <= Len(c)
  /\ SubSeq(c, i, i + Len(Prefix) - 1) = Prefix
  /\ c[i + Len(Prefix)] \notin Terminators

\* The end of the greedy match that starts at i.
RECURSIVE MatchEnd(_, _)
MatchEnd(c, j) ==
  IF j < Len(c) /\ c[j + 1] \notin Terminators THEN MatchEnd(c, j + 1) ELSE j

\* re.search(pattern, content) followed by .group(0).rstrip('.,);'): the link,
\* or <<>> when there is no match.
FindLink(c) ==
  LET starts == {i \in 1..Len(c) : MatchesAt(c, i)}
  IN IF starts = {} THEN <<>>
     ELSE LET i == CHOOSE k \in starts : \A m \in starts : k <= m
          IN RStrip(SubSeq(c, i, MatchEnd(c, i + Len(Prefix))))

\* ------------------------------------------------------- network responses
\* What a call of requests.get / requests.post can produce.  err: the call
\* raised (connection refused, DNS, ...).  ok: the status is 2xx.  body: the
\* shape of the body,
\*   "nobody"   empty or not JSON (resp.json() raises),
\*   "array"    a JSON array of items,
\*   "object"   a JSON object with none of the keys the code asks for
\*              (an error object such as {"code": 401, "message": ...}),
\*   "null"     a JSON object whose expected key holds null
\*              ({"hydra:member": null}, {"data": null}, {"token": null}),
\*   "wrapped"  the expected envelope around items
\*              ({"hydra:member": items}, {"data": {"inbox": items}},
\*               {"token": items[1]}).
NetError == [err |-> TRUE, ok |-> FALSE, body |-> "nobody", items |-> <<>>]

BodyShapes == {"nobody", "array", "object", "null", "wrapped"}

\* The responses of an endpoint whose well-formed body has the shape canon:
\* every status with every shape, the items varying in the shape canon.
Responses(canon, itemSeqs) ==
  {NetError}
  \cup {[err |-> FALSE, ok |-> o, body |-> b, items |-> <<>>] :
          o \in BOOLEAN, b \in BodyShapes}
  \cup {[err |-> FALSE, ok |-> o, body |-> canon, items |-> s] :
          o \in BOOLEAN, s \in itemSeqs}

StatusOf(r) ==
  IF r.body = "none" THEN "none"
  ELSE IF r.err THEN "err" ELSE IF r.ok THEN "2xx" ELSE "non2xx"

\* No response: what raisedBy holds for an exception no response made.
NoResp == [err |-> FALSE, ok |-> FALSE, body |-> "none", items |-> <<>>]
NoRaise == [at |-> "none", status |-> "none", body |-> "none"]

\* Domain discovery: the domains a backend offers.
DomainSeqs == {<<>>, <<"mailtm.example">>}
DomainResponses == Responses("wrapped", DomainSeqs)
\* The account POST: only the status is looked at.
StatusResponses == Responses("object", {<<>>})
\* The token POST.
TokenResponses == Responses("wrapped", {<<"tok">>})

\* ----------------------------------------------------------------- state
VARIABLES
  mode,          \* main: the mode entered, NoneVal before
  count,         \* main: the count entered (0 stands for None in mode "2")
  i,             \* main: the runs completed
  pc,            \* the statement the single thread is at
  driver,        \* AviraAutomation.driver: "none" | "live" | "quit"
  provider,      \* TempMailProvider.provider
  email,         \* TempMailProvider.email
  token,         \* TempMailProvider.token
  password,      \* TempMailProvider.password
  email_address, \* AviraAutomation.email_address
  msgs,          \* get_activation_link: the ids of the listing being iterated
  idx,           \* get_activation_link: the messages of msgs already read
  elapsed,       \* get_activation_link: time.time() - start
  link,          \* run: the link get_activation_link returned, <<>> before
  result,        \* what run returned: NoneVal (running) | "True" | "False"
  logfile,       \* activation_links.txt: its lines
  exc,           \* the exception the run's except clause caught, "none" before
  raisedBy,      \* history: the function that raised exc and the response
                 \* that made it
  attempts,      \* history: the creations tried by create_email, with outcome
  createCalls,   \* history: the calls of create_email in this run
  pollHosts,     \* history: the hosts listing and read requests went to
  tickStart,     \* history: elapsed at the deadline check that began the tick
  tickNet,       \* history: the seconds the tick's network calls took
  tickReads,     \* history: the reads of this tick: the position in msgs and
                 \* the link found in the content, <<>> when none
  tickSleeps,    \* history: the sleeps since the tick began
  tickListed,    \* history: the length of the listing of this tick
  formEmail,     \* history: the address typed into the form
  cleanups,      \* history: the calls of cleanup in this run
  arg,           \* a function applied on its own: its arguments
  ret            \* a function applied on its own: what it gave

vars == << mode, count, i, pc, driver, provider, email, token, password,
           email_address, msgs, idx, elapsed, link, result, logfile, exc,
           raisedBy, attempts, createCalls, pollHosts, tickStart, tickNet, tickReads,
           tickSleeps, tickListed, formEmail, cleanups, arg, ret >>

mainVars == << mode, count, i >>
mailVars == << provider, email, token, password >>
pollVars == << msgs, idx, elapsed, link >>
tickVars == << tickStart, tickNet, tickReads, tickSleeps, tickListed >>
callVars == << arg, ret >>

\* main before its first prompt.
MainInit ==
  /\ mode = NoneVal /\ count = 0 /\ i = 0
  /\ pc = "main_input"
  /\ driver = "none"
  /\ provider = NoneVal /\ email = NoEmail
  /\ token = NoneVal /\ password = NoneVal
  /\ email_address = NoEmail
  /\ msgs = <<>> /\ idx = 0 /\ elapsed = 0 /\ link = <<>>
  /\ result = NoneVal
  /\ logfile = <<>>
  /\ exc = "none" /\ raisedBy = NoRaise
  /\ attempts = <<>> /\ createCalls = 0
  /\ pollHosts = {}
  /\ tickStart = 0 /\ tickNet = 0 /\ tickReads = <<>> /\ tickSleeps = 0
  /\ tickListed = 0
  /\ formEmail = NoEmail
  /\ cleanups = 0
  /\ arg = NoneVal /\ ret = NoneVal

\* Raise without the finally clause of run.
Raise_nofinally(kind, at, r) ==
  /\ exc' = kind
  /\ raisedBy' = [at |-> at, status |-> StatusOf(r), body |-> r.body]
  /\ result' = "False"
  /\ pc' = "run_returned"

\* Raise with the except clause of run returning True.
Raise_true(kind, at, r) ==
  /\ exc' = kind
  /\ raisedBy' = [at |-> at, status |-> StatusOf(r), body |-> r.body]
  /\ result' = "True"
  /\ pc' = "cleanup"

\* run: "except Exception as e: log; return False", then the finally clause.
\* at names the function the exception came out of, r the response that made
\* it (NoResp when no response did).
Raise(kind, at, r) ==
  /\ exc' = kind
  /\ raisedBy' = [at |-> at, status |-> StatusOf(r), body |-> r.body]
  /\ result' = "False"
  /\ pc' = "cleanup"

NotRaised == UNCHANGED << exc, raisedBy, result >>

\* ------------------------------------------------------------------ main
\* main, lines 255-258: the mode prompt repeats until "1" or "2" is entered;
\* the count is asked in mode "1" only.
main_input ==
  /\ pc = "main_input"
  /\ \E m \in {"1", "2", "x"} :
       /\ mode' = m
       /\ \/ m = "x" /\ count' = count /\ pc' = pc
          \/ m = "1" /\ count' \in 0..MaxCount /\ pc' = "main_loop"
          \/ m = "2" /\ count' = 0 /\ pc' = "main_loop"
  /\ UNCHANGED << callVars, i, driver, mailVars, email_address, pollVars, result,
                  logfile, exc, raisedBy, attempts, createCalls, pollHosts, tickVars,
                  formEmail, cleanups >>

\* NewProvider with the provider object of the run before kept for the
\* next run.
NewProvider_reused ==
  [provider |-> provider, email |-> email, token |-> token, password |-> password]

\* TempMailProvider.__init__: the four fields of a new provider object.
NewProvider ==
  [provider |-> NoneVal, email |-> NoEmail, token |-> NoneVal, password |-> NoneVal]

\* main, lines 261-263 up to the call of run: bot = AviraAutomation() builds a
\* new TempMailProvider and has no driver and no address.
main_new_bot ==
  /\ pc = "main_loop"
  /\ i < MaxRuns
  /\ pc' = "setup_driver"
  /\ driver' = "none"
  /\ provider' = NewProvider.provider /\ email' = NewProvider.email
  /\ token' = NewProvider.token /\ password' = NewProvider.password
  /\ email_address' = NoEmail
  /\ msgs' = <<>> /\ idx' = 0 /\ elapsed' = 0 /\ link' = <<>>
  /\ result' = NoneVal
  /\ exc' = "none" /\ raisedBy' = NoRaise
  /\ attempts' = <<>> /\ createCalls' = 0
  /\ pollHosts' = {}
  /\ tickStart' = 0 /\ tickNet' = 0 /\ tickReads' = <<>> /\ tickSleeps' = 0
  /\ tickListed' = 0
  /\ formEmail' = NoEmail
  /\ cleanups' = 0
  /\ UNCHANGED << mainVars, callVars, logfile >>

\* "if count and i >= count": None and 0 are both falsy.
LoopBreaks(c, n) == c # 0 /\ n >= c

\* main, lines 264-267: count the run, leave the loop or sleep and go on.
main_after_run ==
  /\ pc = "run_returned"
  /\ i' = i + 1
  /\ pc' = IF LoopBreaks(count, i + 1) THEN "exit" ELSE "main_loop"
  /\ UNCHANGED << callVars, mode, count, driver, mailVars, email_address, pollVars,
                  result, logfile, exc, raisedBy, attempts, createCalls, pollHosts,
                  tickVars, formEmail, cleanups >>

\* ------------------------------------------------------------------- run
\* setup_driver: the driver is built and patched; building it may raise
\* (before self.driver is assigned) and so may execute_script (after).
setup_driver ==
  /\ pc = "setup_driver"
  /\ \E outcome \in {"ok", "no_driver", "script_error"} :
       /\ driver' = IF outcome = "no_driver" THEN "none" ELSE "live"
       /\ IF outcome = "ok"
            THEN /\ pc' = "create_email"
                 /\ NotRaised
            ELSE Raise("WebDriverException", "setup_driver", NoResp)
  /\ UNCHANGED << mainVars, callVars, mailVars, email_address, pollVars, logfile,
                  attempts, createCalls, pollHosts, tickVars, formEmail,
                  cleanups >>

\* ---------------------------------------------------------- create_email
Range(seq) == {seq[k] : k \in 1..Len(seq)}

\* One entry of attempts: the backend tried, whether its creation succeeded,
\* the call that decided it and what that call returned.
Attempt(backend, ok, step, status) ==
  [backend |-> backend, ok |-> ok, step |-> step, status |-> status]

\* _create_mailtm_account, lines 59-62: the domains random.choice can pick
\* from; none when the lines raise (the request, raise_for_status, json(),
\* .get on a list, random.choice of [] or of None).
MailtmDomains(r) ==
  IF r.err \/ ~r.ok \/ r.body # "wrapped" THEN {} ELSE Range(r.items)

\* _create_mailtm_account, lines 68-72: the account POST raises.
MailtmAccountFails(r) == r.err \/ ~r.ok

\* _create_mailtm_account, lines 73-78: the token POST raises, or json() or
\* .get("token") does.
MailtmTokenFails(r) == r.err \/ ~r.ok \/ r.body \in {"nobody", "array"}

\* token_resp.json().get("token")
MailtmToken(r) ==
  IF r.body = "wrapped" /\ r.items # <<>> THEN r.items[1] ELSE NoneVal

\* TempmailDomains with a response that is not ok raising, as
\* raise_for_status would make it.
TempmailDomains_strict(r) ==
  IF r.err \/ ~r.ok THEN {}
  ELSE IF r.body = "array" THEN Range(r.items)
  ELSE {}

\* create_email, lines 40-43: the domains random.choice can pick from; none
\* when the lines raise (the request, json(), random.choice of an empty list
\* or of a dict).  A response that is not ok gives the hardcoded list.
TempmailDomains(r) ==
  IF r.err THEN {}
  ELSE IF ~r.ok THEN Range(DefaultDomains)
  ELSE IF r.body = "array" THEN Range(r.items)
  ELSE {}

TempmailDomainResponses == Responses("array", {<<>>, <<"tempmail.example">>})

\* AfterFailure with the failure of Temp-Mail.org not caught: it leaves
\* create_email for run's finally clause.
AfterFailure_uncaught(backend) ==
  IF backend = MAILTM THEN "create_tempmail" ELSE "cleanup"

\* AfterFailure with the Temp-Mail.org fallback left out.
AfterFailure_skip(backend) == "create_maildrop"

\* create_email, lines 35-38 and 48-51: the except clause logs a warning and
\* the next fallback follows.
AfterFailure(backend) ==
  IF backend = MAILTM THEN "create_tempmail" ELSE "create_maildrop"

\* ReturnEmail with run going on to the poll, the form left out.
ReturnEmail_noform(e) ==
  /\ email_address' = e
  /\ pc' = "get_activation_link"

\* ReturnEmail with run calling create_email a second time.
ReturnEmail_again(e) ==
  /\ email_address' = e
  /\ pc' = IF createCalls < 2 THEN "create_email" ELSE "submit_email_form"

\* create_email returns self.email; run stores it in email_address.
ReturnEmail(e) ==
  /\ email_address' = e
  /\ pc' = "submit_email_form"

\* create_email, lines 30-31 and _create_mailtm_account, lines 59-67: domain
\* discovery, then email and password are written.
create_mailtm_domains ==
  /\ pc = "create_email"
  /\ createCalls' = createCalls + 1
  /\ \E r \in DomainResponses, u \in Users10, pw \in Passwords :
       IF MailtmDomains(r) = {}
         THEN /\ attempts' = Append(attempts, Attempt(MAILTM, FALSE, "domains", StatusOf(r)))
              /\ pc' = AfterFailure(MAILTM)
              /\ UNCHANGED << email, password >>
         ELSE /\ \E d \in MailtmDomains(r) : email' = Address(u, d)
              /\ password' = pw
              /\ pc' = "create_mailtm_account"
              /\ UNCHANGED attempts
  /\ UNCHANGED << mainVars, callVars, driver, provider, token, email_address, pollVars,
                  result, logfile, exc, raisedBy, pollHosts, tickVars, formEmail,
                  cleanups >>

\* _create_mailtm_account, lines 68-72: the account POST.
create_mailtm_account ==
  /\ pc = "create_mailtm_account"
  /\ \E r \in StatusResponses :
       IF MailtmAccountFails(r)
         THEN /\ attempts' = Append(attempts, Attempt(MAILTM, FALSE, "account", StatusOf(r)))
              /\ pc' = AfterFailure(MAILTM)
         ELSE /\ pc' = "create_mailtm_token"
              /\ UNCHANGED attempts
  /\ UNCHANGED << mainVars, callVars, driver, mailVars, email_address, pollVars, result,
                  logfile, exc, raisedBy, createCalls, pollHosts, tickVars, formEmail,
                  cleanups >>

\* _create_mailtm_account, lines 73-78, and create_email, lines 32-34: the
\* token POST; on success the token and the provider are written.
create_mailtm_token ==
  /\ pc = "create_mailtm_token"
  /\ \E r \in TokenResponses :
       IF MailtmTokenFails(r)
         THEN /\ attempts' = Append(attempts, Attempt(MAILTM, FALSE, "token", StatusOf(r)))
              /\ pc' = AfterFailure(MAILTM)
              /\ UNCHANGED << provider, token, email_address >>
         ELSE /\ token' = MailtmToken(r)
              /\ provider' = MAILTM
              /\ attempts' = Append(attempts, Attempt(MAILTM, TRUE, "token", StatusOf(r)))
              /\ ReturnEmail(email)
  /\ UNCHANGED << mainVars, callVars, driver, email, password, pollVars, result, logfile,
                  exc, raisedBy, createCalls, pollHosts, tickVars, formEmail, cleanups >>

\* create_email, lines 38-49: the Temp-Mail.org fallback.
create_tempmail ==
  /\ pc = "create_tempmail"
  /\ \E r \in TempmailDomainResponses, u \in Users10 :
       IF TempmailDomains(r) = {}
         THEN /\ attempts' = Append(attempts, Attempt(TEMPMAIL_ORG, FALSE, "domains", StatusOf(r)))
              /\ pc' = AfterFailure(TEMPMAIL_ORG)
              /\ UNCHANGED << provider, email, email_address >>
         ELSE /\ \E d \in TempmailDomains(r) :
                   /\ email' = Address(u, d)
                   /\ ReturnEmail(Address(u, d))
              /\ provider' = TEMPMAIL_ORG
              /\ attempts' = Append(attempts, Attempt(TEMPMAIL_ORG, TRUE, "domains", StatusOf(r)))
  /\ UNCHANGED << mainVars, callVars, driver, token, password, pollVars, result, logfile,
                  exc, raisedBy, createCalls, pollHosts, tickVars, formEmail, cleanups >>

\* create_email, lines 51-56: the Maildrop fallback, built without a request.
create_maildrop ==
  /\ pc = "create_maildrop"
  /\ \E u \in Users12 :
       /\ email' = Address(u, MaildropDomain)
       /\ ReturnEmail(Address(u, MaildropDomain))
  /\ provider' = MAILDROP
  /\ attempts' = Append(attempts, Attempt(MAILDROP, TRUE, "local", "none"))
  /\ UNCHANGED << mainVars, callVars, driver, token, password, pollVars, result, logfile,
                  exc, raisedBy, createCalls, pollHosts, tickVars, formEmail, cleanups >>

\* submit_email_form: the page is loaded, the address typed and the form
\* sent; the CAPTCHA wait's answer is dropped.  The page load may raise, and
\* the missing input raises.  attempts is the record of the create_email call
\* just returned; it ends here.
submit_email_form ==
  /\ pc = "submit_email_form"
  /\ \E outcome \in {"ok", "no_input", "driver_error"} :
       IF outcome = "ok"
         THEN /\ formEmail' = email_address
              /\ pc' = "get_activation_link"
              /\ NotRaised
         ELSE /\ Raise(IF outcome = "no_input" THEN "Exception"
                                                ELSE "WebDriverException",
                       "submit_email_form", NoResp)
              /\ UNCHANGED formEmail
  /\ attempts' = <<>>
  /\ UNCHANGED << mainVars, callVars, driver, mailVars, email_address, pollVars, logfile,
                  createCalls, pollHosts, tickVars, cleanups >>

\* ------------------------------------------------------- message contents
S_plain == << "h", "i" >>
\* "go https://my.avira.com/en/auth/login?t=1. ok"
S_link1 == << "g", "o", " " >> \o Prefix \o << "t", "=", "1", ".", " ", "o", "k" >>
\* "<a href=\"https://my.avira.com/en/auth/login?t=2\">"
S_link2 == << "<", "a", " ", "h", "r", "e", "f", "=", "\"" >> \o Prefix
             \o << "t", "=", "2", "\"", ">" >>
\* The two fragments of "https://my.avira.com/en/auth/login?t=3);", cut
\* inside the prefix.
S_frag1 == SubSeq(Prefix, 1, 20)
S_frag2 == SubSeq(Prefix, 21, Len(Prefix)) \o << "t", "=", "3", ")", ";" >>

\* The value of one field of a JSON message: missing, null, a string (frags
\* holds it) or a list of string fragments.
Absent == [kind |-> "absent", frags |-> <<>>]
Null == [kind |-> "null", frags |-> <<>>]
Str(s) == [kind |-> "str", frags |-> <<s>>]
List(fs) == [kind |-> "list", frags |-> fs]

\* Python's truth value of a field value: None, "" and [] are falsy.
Truthy(fv) ==
  \/ fv.kind = "str" /\ fv.frags[1] # <<>>
  \/ fv.kind = "list" /\ fv.frags # <<>>

\* "".join(fragments)
RECURSIVE Join(_)
Join(fs) == IF fs = <<>> THEN <<>> ELSE Head(fs) \o Join(Tail(fs))

SeqsUpTo(S, n) == UNION {[1..k -> S] : k \in 0..n}

\* A listing as the poller uses it: of each message only "id" is looked at.
\* The messages listed carry the id "m1"; "m2" is the id of a message that a
\* later listing of the mailbox holds besides.
IdItems == {[id |-> "m1"]}
IdListings == SeqsUpTo(IdItems, MaxMsgs)
WrappedListingResponses == Responses("wrapped", IdListings)
ArrayListingResponses == Responses("array", IdListings)
\* The responses the listing of provider p can get.
ListingResponses(p) ==
  IF p = TEMPMAIL_ORG THEN ArrayListingResponses ELSE WrappedListingResponses

\* A message of a Temp-Mail.org listing, which carries its content.
TempMsg(id, mail_text, text, body) ==
  [id |-> id, mail_text |-> mail_text, text |-> text, body |-> body]

\* The listings a read of Temp-Mail.org gets, by sample.
TempListings ==
  { <<>>,
    << TempMsg("m1", Str(S_link1), Absent, Absent) >>,
    << TempMsg("m1", Str(<<>>), Null, Str(S_link2)) >>,
    << TempMsg("m1", Absent, Str(S_plain), Absent) >>,
    << TempMsg("m1", Absent, Absent, Null) >>,
    << TempMsg("m1", Null, List(<<S_frag1, S_frag2>>), Absent) >>,
    << TempMsg("m2", Str(S_link1), Absent, Absent) >>,
    << TempMsg("m2", Str(S_link1), Absent, Absent),
       TempMsg("m1", Absent, Str(S_plain), Absent) >>,
    << TempMsg("m1", Absent, Str(S_plain), Absent),
       TempMsg("m1", Str(S_link1), Absent, Absent) >>,
    << TempMsg("m1", Str(<<>>), Null, Str(S_link2)),
       TempMsg("m2", Absent, Str(S_plain), Absent) >> }
TempListingResponses == Responses("array", TempListings)

\* The message of a mail.tm or Maildrop read: items holds the two content
\* fields, text and html (mail.tm) or data and html (Maildrop); an empty
\* items is Maildrop's {"data": {"message": null}}.
ContentPairs ==
  { <<Absent, Absent>>, <<Str(S_plain), Null>>, <<Str(<<>>), Str(S_plain)>>,
    <<Str(S_link1), Str(S_plain)>>, <<Null, Str(S_link2)>>,
    <<Str(S_link2), Str(S_link1)>>,
    <<List(<<S_frag1, S_frag2>>), Absent>>, <<Str(S_frag1), Str(S_frag2)>>,
    <<Str(S_plain), List(<<S_frag1, S_frag2>>)>> }
ReadResponses == Responses("wrapped", {<<>>} \cup ContentPairs)

\* ----------------------------------------------------------- get_messages
\* The backend get_messages sends its request to, by self.provider.
GetMessagesHost(p) ==
  IF p = MAILTM THEN HOST_MAILTM
  ELSE IF p = TEMPMAIL_ORG THEN HOST_TEMPMAIL
  ELSE HOST_MAILDROP

\* What a function call gives: it raises (items holds the exception's name),
\* or returns None, a dict, a list (items) or a string (items holds it).
Raised(e) == [kind |-> "raise", items |-> <<e>>]
PyNone == [kind |-> "none", items |-> <<>>]
PyDict == [kind |-> "dict", items |-> <<>>]
PyList(items) == [kind |-> "list", items |-> items]
PyStr(s) == [kind |-> "str", items |-> <<s>>]

\* get_messages, lines 82-84: resp.json().get("hydra:member", [])
mailtm_get_messages(r) ==
  IF r.err THEN Raised("ConnectionError")
  ELSE IF r.body = "nobody" THEN Raised("JSONDecodeError")
  ELSE IF r.body = "array" THEN Raised("AttributeError")
  ELSE IF r.body = "object" THEN PyList(<<>>)
  ELSE IF r.body = "null" THEN PyNone
  ELSE PyList(r.items)

\* get_messages, lines 86-89: resp.json() if resp.ok else []
tempmail_get_messages(r) ==
  IF r.err THEN Raised("ConnectionError")
  ELSE IF ~r.ok THEN PyList(<<>>)
  ELSE IF r.body = "nobody" THEN Raised("JSONDecodeError")
  ELSE IF r.body = "array" THEN PyList(r.items)
  ELSE PyDict

\* get_messages, lines 91-94: resp.json().get("data", {}).get("inbox", [])
maildrop_get_messages(r) ==
  IF r.err THEN Raised("ConnectionError")
  ELSE IF r.body = "nobody" THEN Raised("JSONDecodeError")
  ELSE IF r.body \in {"array", "null"} THEN Raised("AttributeError")
  ELSE IF r.body = "object" THEN PyList(<<>>)
  ELSE PyList(r.items)

get_messages(p, r) ==
  IF p = MAILTM THEN mailtm_get_messages(r)
  ELSE IF p = TEMPMAIL_ORG THEN tempmail_get_messages(r)
  ELSE maildrop_get_messages(r)

\* ----------------------------------------------------------- read_message
\* ReadMessageHost without the branch of Temp-Mail.org.
ReadMessageHost_nobranch(p) ==
  IF p = MAILTM THEN HOST_MAILTM ELSE HOST_MAILDROP

\* The backend read_message sends its request to, by self.provider.
ReadMessageHost(p) ==
  IF p = MAILTM THEN HOST_MAILTM
  ELSE IF p = TEMPMAIL_ORG THEN HOST_TEMPMAIL
  ELSE HOST_MAILDROP

NL == << "\n" >>

\* read_message, lines 101-106: data.get(key) or "", a list joined.
MailtmField(fv) ==
  IF ~Truthy(fv) THEN <<>>
  ELSE IF fv.kind = "list" THEN Join(fv.frags)
  ELSE fv.frags[1]

\* read_message, lines 98-107.
mailtm_read_message(r) ==
  IF r.err THEN Raised("ConnectionError")
  ELSE IF r.body = "nobody" THEN Raised("JSONDecodeError")
  ELSE IF r.body = "array" THEN Raised("AttributeError")
  ELSE IF r.body \in {"object", "null"} \/ r.items = <<>> THEN PyStr(NL)
  ELSE PyStr(MailtmField(r.items[1]) \o NL \o MailtmField(r.items[2]))

\* read_message, line 111:
\* m.get("mail_text") or m.get("text") or m.get("body", "")
TempmailContent(m) ==
  LET v == IF Truthy(m.mail_text) THEN m.mail_text
           ELSE IF Truthy(m.text) THEN m.text
           ELSE IF m.body.kind = "absent" THEN Str(<<>>)
           ELSE m.body
  IN IF v.kind = "str" THEN PyStr(v.frags[1])
     ELSE IF v.kind = "list" THEN PyList(v.frags)
     ELSE PyNone

\* read_message, lines 109-112: the mailbox is listed again and searched for
\* the id.
tempmail_read_message(id, r) ==
  LET v == tempmail_get_messages(r)
      hits == {k \in 1..Len(v.items) : v.items[k].id = id}
  IN IF v.kind = "raise" THEN v
     ELSE IF v.kind = "dict" THEN Raised("AttributeError")
     ELSE IF hits = {} THEN PyStr(<<>>)
     ELSE TempmailContent(v.items[CHOOSE k \in hits : \A h \in hits : k <= h])

\* read_message, lines 114-118:
\* (msg.get("data") or "") + "\n" + (msg.get("html") or "")
maildrop_read_message(r) ==
  IF r.err THEN Raised("ConnectionError")
  ELSE IF r.body = "nobody" THEN Raised("JSONDecodeError")
  ELSE IF r.body \in {"array", "null"} THEN Raised("AttributeError")
  ELSE IF r.body = "object" THEN PyStr(NL)
  ELSE IF r.items = <<>> THEN Raised("AttributeError")
  ELSE IF \E k \in 1..2 : Truthy(r.items[k]) /\ r.items[k].kind = "list"
    THEN Raised("TypeError")
  ELSE PyStr((IF Truthy(r.items[1]) THEN r.items[1].frags[1] ELSE <<>>)
             \o NL
             \o (IF Truthy(r.items[2]) THEN r.items[2].frags[1] ELSE <<>>))

\* The responses the read of provider p can get.
ReadInputs(p) == IF p = TEMPMAIL_ORG THEN TempListingResponses ELSE ReadResponses

read_message(p, id, r) ==
  IF p = MAILTM THEN mailtm_read_message(r)
  ELSE IF p = TEMPMAIL_ORG THEN tempmail_read_message(id, r)
  ELSE maildrop_read_message(r)

\* ---------------------------------------------------- get_activation_link
\* get_activation_link, lines 212-213: start = time.time()
get_activation_link ==
  /\ pc = "get_activation_link"
  /\ elapsed' = 0
  /\ pc' = "poll_check"
  /\ UNCHANGED << mainVars, callVars, driver, mailVars, email_address, msgs, idx, link,
                  result, logfile, exc, raisedBy, attempts, createCalls,
                  pollHosts, tickVars, formEmail, cleanups >>

\* InTime with the loop written "while True".
InTime_always(e) == TRUE

\* InTime with the deadline itself still in time.
InTime_le(e) == e <= Deadline

\* The loop condition of line 214.
InTime(e) == e < Deadline

\* The locals msgs and m of get_activation_link end with the call, and with
\* the for loop of a tick.
DropListing == msgs' = <<>> /\ idx' = 0

\* An exception other than the timeout leaves get_activation_link: its
\* locals and the record of the tick end with the call.
RaiseInTick(kind, at, r) ==
  /\ Raise(kind, at, r)
  /\ DropListing
  /\ elapsed' = 0
  /\ tickStart' = 0 /\ tickNet' = 0 /\ tickReads' = <<>> /\ tickSleeps' = 0
  /\ tickListed' = 0

\* get_activation_link, line 214 and line 225: the deadline check; a tick
\* begins, or the timeout is raised.
poll_check ==
  /\ pc = "poll_check"
  /\ IF InTime(elapsed)
       THEN /\ pc' = "poll_list"
            /\ tickStart' = elapsed
            /\ tickNet' = 0 /\ tickReads' = <<>> /\ tickSleeps' = 0
            /\ tickListed' = 0
            /\ NotRaised
       ELSE /\ Raise("Timeout", "get_activation_link", NoResp)
            /\ UNCHANGED tickVars
  /\ UNCHANGED << mainVars, callVars, driver, mailVars, email_address, pollVars, logfile,
                  attempts, createCalls, pollHosts, formEmail, cleanups >>

\* get_activation_link, lines 215-217: the listing, and the start of the
\* iteration over it.  Iterating None raises, and so does m.get on the key
\* of a dict.
poll_list ==
  /\ pc = "poll_list"
  /\ \E r \in ListingResponses(provider) :
       LET v == get_messages(provider, r)
       IN /\ pollHosts' = pollHosts \cup {GetMessagesHost(provider)}
          /\ IF v.kind = "list"
               THEN /\ \E d \in Latencies :
                         /\ elapsed' = elapsed + d
                         /\ tickNet' = tickNet + d
                    /\ IF v.items = <<>>
                         THEN DropListing /\ pc' = "poll_sleep"
                         ELSE /\ msgs' = [k \in 1..Len(v.items) |-> v.items[k].id]
                              /\ idx' = 0
                              /\ pc' = "poll_read"
                    /\ tickListed' = Len(v.items)
                    /\ NotRaised
                    /\ UNCHANGED << tickStart, tickReads, tickSleeps >>
               ELSE IF v.kind = "raise"
                 THEN RaiseInTick(v.items[1], "get_messages", r)
                 ELSE RaiseInTick(IF v.kind = "none" THEN "TypeError"
                                                      ELSE "AttributeError",
                                  "iterate_listing", r)
  /\ UNCHANGED << mainVars, callVars, driver, mailVars, email_address, link, logfile,
                  attempts, createCalls, formEmail, cleanups >>

\* NextToRead going through the listing from its end.
NextToRead_rev(n, len) == len - n

\* The position the for loop of line 217 reads next, n of len messages read.
NextToRead(n, len) == n + 1

\* get_activation_link, lines 217-223: one message is read and searched; the
\* first link found is returned.  re.search raises on what is no string.
poll_read ==
  /\ pc = "poll_read"
  /\ \E r \in ReadInputs(provider) :
       LET k == NextToRead(idx, Len(msgs))
           v == read_message(provider, msgs[k], r)
           found == IF v.kind = "str" THEN FindLink(v.items[1]) ELSE <<>>
       IN /\ pollHosts' = pollHosts \cup {ReadMessageHost(provider)}
          /\ IF v.kind = "raise"
               THEN RaiseInTick(v.items[1], "read_message", r) /\ UNCHANGED link
             ELSE IF v.kind # "str"
               THEN /\ RaiseInTick("TypeError", "re.search", r)
                    /\ UNCHANGED link
             ELSE /\ tickReads' = Append(tickReads, [pos |-> k, link |-> found])
                  /\ NotRaised
                  /\ UNCHANGED << tickSleeps, tickListed >>
                  /\ IF found # <<>>
                       THEN /\ link' = found
                            /\ pc' = "save_link"
                            /\ DropListing
                            /\ elapsed' = 0 /\ tickStart' = 0 /\ tickNet' = 0
                       ELSE /\ \E d \in Latencies :
                                 /\ elapsed' = elapsed + d
                                 /\ tickNet' = tickNet + d
                            /\ UNCHANGED << link, tickStart >>
                            /\ IF idx + 1 = Len(msgs)
                                 THEN DropListing /\ pc' = "poll_sleep"
                                 ELSE /\ idx' = idx + 1 /\ msgs' = msgs
                                      /\ pc' = "poll_read"
  /\ UNCHANGED << mainVars, callVars, driver, mailVars, email_address, logfile, attempts,
                  createCalls, formEmail, cleanups >>

\* get_activation_link, line 224: time.sleep(5)
poll_sleep ==
  /\ pc = "poll_sleep"
  /\ elapsed' = elapsed + PollInterval
  /\ tickSleeps' = tickSleeps + 1
  /\ pc' = "poll_check"
  /\ UNCHANGED << mainVars, callVars, driver, mailVars, email_address, msgs, idx, link,
                  result, logfile, exc, raisedBy, attempts, createCalls,
                  pollHosts, tickStart, tickNet, tickReads, tickListed,
                  formEmail, cleanups >>

\* ------------------------------------------------------ save_link, cleanup
\* save_link, line 229: the line f"{self.email_address}:{link}\n", kept as
\* its two parts.
LogLine(address, url) == [address |-> address, url |-> url]

\* WriteLine with the file opened in mode "w".
WriteLine_truncate(file, line) == << line >>

\* save_link, lines 228-229: open(..., "a") and f.write(line).
WriteLine(file, line) == Append(file, line)

\* save_link, and run's "return True": one line is appended to the file;
\* open raises when the file cannot be written, and nothing is written.
save_link ==
  /\ pc = "save_link"
  /\ \E outcome \in {"ok", "io_error"} :
       IF outcome = "ok"
         THEN /\ logfile' = WriteLine(logfile, LogLine(email_address, link))
              /\ result' = "True"
              /\ pc' = "cleanup"
              /\ UNCHANGED << exc, raisedBy >>
         ELSE /\ Raise("OSError", "save_link", NoResp)
              /\ UNCHANGED logfile
  /\ UNCHANGED << mainVars, callVars, driver, mailVars, email_address, pollVars,
                  attempts, createCalls, pollHosts, tickVars, formEmail,
                  cleanups >>

\* cleanup, run's finally clause: a driver that was built is quit; quit is
\* taken to return.
cleanup ==
  /\ pc = "cleanup"
  /\ driver' = IF driver = "live" THEN "quit" ELSE driver
  /\ cleanups' = cleanups + 1
  /\ pc' = "run_returned"
  /\ UNCHANGED << mainVars, callVars, mailVars, email_address, pollVars, result, logfile,
                  exc, raisedBy, attempts, createCalls, pollHosts, tickVars, formEmail >>

\* ------------------------------------------ functions applied on their own
\* The state around a function that is applied on its own: a bot as
\* AviraAutomation() builds it, in no run.
NoRun ==
  /\ mode = "2" /\ count = 0 /\ i = 0
  /\ driver = "none"
  /\ msgs = <<>> /\ idx = 0 /\ elapsed = 0 /\ link = <<>>
  /\ result = NoneVal
  /\ logfile = <<>>
  /\ exc = "none" /\ raisedBy = NoRaise
  /\ attempts = <<>> /\ createCalls = 0
  /\ pollHosts = {}
  /\ tickStart = 0 /\ tickNet = 0 /\ tickReads = <<>> /\ tickSleeps = 0
  /\ tickListed = 0
  /\ formEmail = NoEmail
  /\ cleanups = 0

\* The prefix with the dots of the host replaced: what an unescaped "." of
\* the pattern would match besides.
NearPrefix == [k \in 1..Len(Prefix) |-> IF Prefix[k] = "." THEN "-" ELSE Prefix[k]]

\* The pieces the contents searched are made of.
LinkTokens ==
  { Prefix, NearPrefix, <<"a">>, <<".">>, <<";">>, <<")">>, <<" ">>, <<"\"">>,
    <<">">>, <<"'">> }

\* "click https://my.avira.com/en/auth/login?token=abc123. thanks"
ExampleContent ==
  << "c","l","i","c","k"," " >> \o Prefix
    \o << "t","o","k","e","n","=","a","b","c","1","2","3","."," ",
          "t","h","a","n","k","s" >>

\* The contents searched: every sequence of up to MaxToks pieces, and the
\* example.
Contents ==
  {Join(ts) : ts \in SeqsUpTo(LinkTokens, MaxToks)} \cup {ExampleContent}

\* get_activation_link, lines 220-221, on a content of its own.
LinkInit ==
  /\ NoRun
  /\ provider = NoneVal /\ email = NoEmail
  /\ token = NoneVal /\ password = NoneVal
  /\ email_address = NoEmail
  /\ pc = "re_search"
  /\ arg \in Contents
  /\ ret = NoneVal

re_search ==
  /\ pc = "re_search"
  /\ ret' = FindLink(arg)
  /\ pc' = "searched"
  /\ UNCHANGED << mainVars, arg, driver, mailVars, email_address, pollVars,
                  result, logfile, exc, raisedBy, attempts, createCalls,
                  pollHosts, tickVars, formEmail, cleanups >>

\* The values a content field of a message can have.
FieldValues ==
  { Absent, Null, Str(<<>>), Str(S_plain), Str(S_link1), List(<<>>),
    List(<<S_frag1, S_frag2>>) }

\* The mailboxes create_email leaves active, one of each provider.
ActiveMailboxes ==
  { [provider |-> MAILTM, email |-> Address("user10", "mailtm.example"),
     token |-> "tok", password |-> "pw16"],
    [provider |-> TEMPMAIL_ORG, email |-> Address("user10", "temp-mail.org"),
     token |-> NoneVal, password |-> NoneVal],
    [provider |-> MAILDROP, email |-> Address("user12chars", MaildropDomain),
     token |-> NoneVal, password |-> "pw16"] }

\* What the message endpoint of mail.tm or Maildrop can answer: every status
\* and shape, and in the well-formed shape every pair of field values.
MessageResponses ==
  Responses("wrapped", {<<>>} \cup {<<t, h>> : t \in FieldValues, h \in FieldValues})

\* Another message of the mailbox, listed before the one asked for.
OtherMsg == TempMsg("m2", Str(S_link1), Absent, Absent)

\* What the listing of Temp-Mail.org can answer to read_message: no message,
\* one message of either id with every combination of field values, or the
\* message after another one.
MessageListings ==
  {<<>>}
  \cup {<<TempMsg(id, a, b, c)>> :
          id \in {"m1", "m2"}, a \in FieldValues, b \in FieldValues, c \in FieldValues}
  \cup {<<OtherMsg, TempMsg("m1", a, b, c)>> :
          a \in FieldValues, b \in FieldValues, c \in FieldValues}
MessageListingResponses == Responses("array", MessageListings)

\* The response carries the message id: Temp-Mail.org lists it; mail.tm and
\* Maildrop answer 2xx with the message.
Carries(p, id, r) ==
  /\ ~r.err /\ r.ok
  /\ IF p = TEMPMAIL_ORG
       THEN r.body = "array" /\ \E k \in 1..Len(r.items) : r.items[k].id = id
       ELSE r.body = "wrapped" /\ r.items # <<>>

\* The message of the id in a response that carries it.
Carried(p, id, r) ==
  IF p = TEMPMAIL_ORG
    THEN r.items[CHOOSE k \in 1..Len(r.items) :
                   r.items[k].id = id /\ \A h \in 1..(k - 1) : r.items[h].id # id]
    ELSE r.items

\* read_message on its own: an active mailbox, the id "m1" and the answer
\* of the backend.
ReadInit ==
  /\ NoRun
  /\ \E mb \in ActiveMailboxes :
       /\ provider = mb.provider /\ email = mb.email
       /\ token = mb.token /\ password = mb.password
       /\ email_address = mb.email
  /\ pc = "read_message"
  /\ \E r \in (IF provider = TEMPMAIL_ORG THEN MessageListingResponses
                                            ELSE MessageResponses) :
       arg = [id |-> "m1", resp |-> r]
  /\ ret = NoneVal

call_read_message ==
  /\ pc = "read_message"
  /\ ret' = read_message(provider, arg.id, arg.resp)
  /\ pc' = "read_returned"
  /\ UNCHANGED << mainVars, arg, driver, mailVars, email_address, pollVars,
                  result, logfile, exc, raisedBy, attempts, createCalls,
                  pollHosts, tickVars, formEmail, cleanups >>

\* ------------------------------------------------------------ specification
\* One run: the first iteration of main's loop in mode "2", from the state
\* bot = AviraAutomation() leaves, to the return of run.
Init ==
  /\ mode = "2" /\ count = 0 /\ i = 0
  /\ pc = "setup_driver"
  /\ driver = "none"
  /\ provider = NoneVal /\ email = NoEmail
  /\ token = NoneVal /\ password = NoneVal
  /\ email_address = NoEmail
  /\ msgs = <<>> /\ idx = 0 /\ elapsed = 0 /\ link = <<>>
  /\ result = NoneVal
  /\ logfile = <<>>
  /\ exc = "none" /\ raisedBy = NoRaise
  /\ attempts = <<>> /\ createCalls = 0
  /\ pollHosts = {}
  /\ tickStart = 0 /\ tickNet = 0 /\ tickReads = <<>> /\ tickSleeps = 0
  /\ tickListed = 0
  /\ formEmail = NoEmail
  /\ cleanups = 0
  /\ arg = NoneVal /\ ret = NoneVal

Next ==
  \/ setup_driver
  \/ create_mailtm_domains
  \/ create_mailtm_account
  \/ create_mailtm_token
  \/ create_tempmail
  \/ create_maildrop
  \/ submit_email_form
  \/ get_activation_link
  \/ poll_check
  \/ poll_list
  \/ poll_read
  \/ poll_sleep
  \/ save_link
  \/ cleanup

Spec == Init /\ [][Next]_vars

\* No tick after the first one of a poll begins.
FirstTick == tickStart' = 0 /\ tickNet' = 0

\* The whole program: main's prompts and its loop around the runs.  Of the
\* polls, those that end in their first tick are followed; the later ticks
\* are those of Spec.
MainNext ==
  \/ main_input
  \/ main_new_bot
  \/ main_after_run
  \/ setup_driver /\ FirstTick
  \/ create_mailtm_domains /\ FirstTick
  \/ create_mailtm_account /\ FirstTick
  \/ create_mailtm_token /\ FirstTick
  \/ create_tempmail /\ FirstTick
  \/ create_maildrop /\ FirstTick
  \/ submit_email_form /\ FirstTick
  \/ get_activation_link /\ FirstTick
  \/ poll_check /\ FirstTick
  \/ poll_list /\ FirstTick
  \/ poll_read /\ FirstTick
  \/ poll_sleep /\ FirstTick
  \/ save_link /\ FirstTick
  \/ cleanup /\ FirstTick

MainSpec == MainInit /\ [][MainNext]_vars

\* The run with its scheduling: the single thread takes its next step
\* whenever it has one.
FairSpec == Spec /\ WF_vars(Next)

\* The link extraction applied to each content of Contents.
LinkNext == re_search

LinkSpec == LinkInit /\ [][LinkNext]_vars

\* read_message applied to each answer of each backend.
ReadNext == call_read_message

ReadSpec == ReadInit /\ [][ReadNext]_vars

\* ------------------------------------------------------------------ claims
\* create_email has just returned to run.
Returned == pc = "submit_email_form"

\* The fallback order of create_email.
FallbackChain == << "mailtm", "tempmail_org", "maildrop" >>

Failed(backend) ==
  \E k \in 1..Len(attempts) : attempts[k].backend = backend /\ ~attempts[k].ok

\* C1: create_email tries the backends in the order mail.tm, Temp-Mail.org,
\* Maildrop; a backend is tried only after every backend before it failed;
\* the provider recorded on return is the backend whose creation succeeded,
\* which is the first in that order to succeed; a mail.tm call that returns
\* a non-2xx status fails mail.tm, so the provider is then never "mailtm".
C1_FallbackOrder ==
  /\ Len(attempts) <= 3
  /\ \A k \in 1..Len(attempts) : attempts[k].backend = FallbackChain[k]
  /\ \A k \in 1..(Len(attempts) - 1) : ~attempts[k].ok
  /\ \A k \in 1..Len(attempts) :
       attempts[k].backend = "mailtm" /\ attempts[k].status = "non2xx"
         => ~attempts[k].ok
  /\ pc = "create_tempmail" => Len(attempts) = 1 /\ Failed("mailtm")
  /\ pc = "create_maildrop" =>
       Len(attempts) = 2 /\ Failed("mailtm") /\ Failed("tempmail_org")
  /\ Returned =>
       /\ attempts # <<>>
       /\ attempts[Len(attempts)].ok
       /\ provider = attempts[Len(attempts)].backend
       /\ (Failed("mailtm") => provider # "mailtm")

\* mail.tm's account POST returned a non-2xx status and Temp-Mail.org made
\* the mailbox.
C1_Witness ==
  /\ Returned
  /\ Len(attempts) = 2
  /\ attempts[1].step = "account" /\ attempts[1].status = "non2xx"
  /\ provider = "tempmail_org"

\* C2: when creation failed on mail.tm and on Temp-Mail.org, create_email
\* returns with provider "maildrop", and the address returned is the stored
\* email and ends with "@maildrop.cc".
C2_MaildropLast ==
  Returned /\ Failed("mailtm") /\ Failed("tempmail_org") =>
    /\ provider = "maildrop"
    /\ email_address = email
    /\ email.domain = "maildrop.cc"
    /\ email.user # NoneVal

\* Both network backends failed and Maildrop made the mailbox.
C2_Witness ==
  /\ Returned
  /\ Failed("mailtm") /\ Failed("tempmail_org")
  /\ provider = "maildrop"

CreatePcs ==
  { "create_email", "create_mailtm_account", "create_mailtm_token",
    "create_tempmail", "create_maildrop" }

\* A step of create_email stays in create_email or returns from it, and
\* raises nothing into run.
StaysInCreate ==
  pc \in CreatePcs =>
    pc' \in CreatePcs \cup {"submit_email_form"} /\ exc' = "none"

\* C3: whatever the network calls of the creation give, create_email ends by
\* returning an address with provider one of the three backends; no
\* exception leaves create_email.
C3_AlwaysCreates ==
  /\ [][StaysInCreate]_vars
  /\ [](Returned => /\ provider \in {"mailtm", "tempmail_org", "maildrop"}
                    /\ email_address = email
                    /\ email.user # NoneVal /\ email.domain # NoneVal)
  /\ (pc = "create_email") ~> Returned

\* mail.tm answered 2xx with a body that made the creation raise, the
\* request to Temp-Mail.org raised, and create_email returned all the same.
C3_Witness ==
  /\ Returned
  /\ Len(attempts) = 3
  /\ attempts[1].status = "2xx" /\ attempts[2].status = "err"

\* C4 (as claimed): when the creation on mail.tm failed, then after
\* create_email returned nothing the failed attempt wrote is still held:
\* password and token are unset and the email is the one of the provider.
C4_NoPartialState ==
  Returned /\ Failed("mailtm") =>
    /\ password = NoneVal
    /\ token = NoneVal
    /\ email.domain # "mailtm.example"

\* C5 (as claimed): a non-2xx response during creation fails the adapter and
\* the next adapter follows, for mail.tm's calls and for Temp-Mail.org's
\* domain discovery alike: after a non-2xx from Temp-Mail.org the provider
\* is not tempmail_org.
C5_Non2xxFallsBack ==
  /\ \A k \in 1..Len(attempts) : attempts[k].status = "non2xx" => ~attempts[k].ok
  /\ Returned /\ (\E k \in 1..Len(attempts) :
                    /\ attempts[k].backend = "tempmail_org"
                    /\ attempts[k].status = "non2xx")
       => provider = "maildrop"

\* C5 (amended): a non-2xx response of a mail.tm call fails mail.tm and
\* Temp-Mail.org follows; a non-2xx response of Temp-Mail.org's domain
\* discovery does not fail it: the mailbox is made by Temp-Mail.org with a
\* domain of the hardcoded list, and Maildrop is not tried.  Temp-Mail.org
\* fails only when the request raises or a 2xx body is unusable.
C5_Non2xxAmended ==
  /\ \A k \in 1..Len(attempts) :
       /\ attempts[k].backend = "mailtm" /\ attempts[k].status = "non2xx"
            => ~attempts[k].ok /\ pc # "create_mailtm_token"
       /\ attempts[k].backend = "tempmail_org" /\ attempts[k].status = "non2xx"
            => attempts[k].ok /\ k = Len(attempts) /\ pc # "create_maildrop"
       /\ attempts[k].backend = "tempmail_org" /\ ~attempts[k].ok
            => attempts[k].status \in {"err", "2xx"}
  /\ Returned /\ (\E k \in 1..Len(attempts) :
                    /\ attempts[k].backend = "tempmail_org"
                    /\ attempts[k].status = "non2xx")
       => /\ provider = "tempmail_org"
          /\ email.domain \in {"temp-mail.org", "mailtemp.net"}

\* Temp-Mail.org's domain discovery returned a non-2xx status after mail.tm
\* failed on one, and the mailbox is Temp-Mail.org's.
C5_Witness ==
  /\ Returned
  /\ Len(attempts) = 2
  /\ attempts[1].status = "non2xx"
  /\ attempts[2].status = "non2xx"
  /\ provider = "tempmail_org"
  /\ email.domain = "mailtemp.net"

PollPcs == {"poll_check", "poll_list", "poll_read", "poll_sleep"}

\* The phases of the mailbox in a run: no provider before create_email
\* returns, one afterwards; create_email is called once, and never a second
\* time (a run whose driver setup raised ends before the call).
MailboxPhases ==
  /\ createCalls <= 1
  /\ createCalls = 0 <=>
       pc \in {"setup_driver", "create_email"} \/ raisedBy.at = "setup_driver"
  /\ provider = NoneVal =>
       pc \in {"setup_driver", "cleanup", "run_returned"} \cup CreatePcs
  /\ provider # NoneVal =>
       /\ provider \in {"mailtm", "tempmail_org", "maildrop"}
       /\ createCalls = 1
       /\ pc \notin {"setup_driver"} \cup CreatePcs
       /\ email # NoEmail /\ email_address = email
  /\ pc \in PollPcs \cup {"get_activation_link", "save_link"} => provider # NoneVal

\* A step leaves an active mailbox as it is, and a listing or read step
\* leaves all four fields of the mailbox as they are.
MailboxStable ==
  /\ provider # NoneVal =>
       provider' = provider /\ email' = email /\ email_address' = email_address
  /\ pc \in {"poll_list", "poll_read"} => UNCHANGED << provider, email, token, password >>

\* C6: in a run the mailbox goes Uninitialized -> Creating -> Active and
\* stays Active: create_email is called once, the provider and the address
\* do not change after it returned, get_messages and read_message change no
\* field of the mailbox, and the provider is never unset again.
C6_StateMachine == []MailboxPhases /\ [][MailboxStable]_vars

\* The poller has listed and read with a Temp-Mail.org mailbox.
C6_Witness ==
  /\ pc = "poll_read" /\ idx = 1
  /\ provider = "tempmail_org" /\ createCalls = 1
  /\ password # NoneVal

\* The host of the backend the provider names.
ActiveHost ==
  CASE provider = "mailtm" -> "api.mail.tm"
    [] provider = "tempmail_org" -> "api.temp-mail.org"
    [] provider = "maildrop" -> "api.maildrop.cc"
    [] OTHER -> "none"

\* C7: every listing and read request of the polling goes to the backend the
\* active provider names, and to no other.
C7_OnlyActiveBackend == pollHosts \subseteq {ActiveHost}

\* A listing and a read were sent for a Temp-Mail.org mailbox.
C7_Witness ==
  /\ pc = "poll_read" /\ idx = 1 /\ tickReads # <<>>
  /\ provider = "tempmail_org"
  /\ pollHosts = {"api.temp-mail.org"}

\* C8 (as claimed): a listing whose response arrived, with a non-2xx status
\* or with malformed or absent body fields, never aborts the run: it counts
\* as an empty listing.  (A response without a body is left aside.)
C8_ListingFailureSwallowed ==
  ~ /\ raisedBy.at \in {"get_messages", "iterate_listing"}
    /\ raisedBy.status \in {"2xx", "non2xx"}
    /\ raisedBy.body # "nobody"

Link1 == Prefix \o << "t", "=", "1" >>
Link2 == Prefix \o << "t", "=", "2" >>

\* The reads of a tick go through the listing in its order and stop at the
\* first content with a link, which is the link returned.
ReadsInOrder ==
  /\ \A j \in 1..Len(tickReads) : tickReads[j].pos = j
  /\ \A j \in 1..(Len(tickReads) - 1) : tickReads[j].link = <<>>
  /\ Len(tickReads) <= tickListed
  /\ pc \in PollPcs => \A j \in 1..Len(tickReads) : tickReads[j].link = <<>>
  /\ pc = "poll_read" => Len(tickReads) = idx /\ idx < Len(msgs)
  /\ link # <<>> =>
       /\ tickReads # <<>>
       /\ tickReads[Len(tickReads)].link = link
       /\ pc \in {"save_link", "cleanup", "run_returned"}

\* Once a link is returned there is no read, sleep or listing any more.
NothingAfterLink ==
  link # <<>> => UNCHANGED << link, tickReads, tickSleeps, tickListed, pollHosts >>

\* C9: in a tick the messages are read one at a time in listing order; the
\* link returned is that of the first message whose content has one; after
\* that message there is no further read, no sleep and no listing.
C9_ShortCircuit == []ReadsInOrder /\ [][NothingAfterLink]_vars

\* Of a listing of two messages the first gave the link: it was returned
\* after one read.
C9_Witness ==
  /\ pc = "save_link"
  /\ tickListed = 2 /\ Len(tickReads) = 1
  /\ link = Link1

RefPrefix ==
  << "h","t","t","p","s",":","/","/" >> \o << "m","y",".","a","v","i","r","a",".","c","o","m" >>
    \o << "/","e","n","/","a","u","t","h","/","l","o","g","i","n","?" >>
\* whitespace, angle brackets, the quote
RefStops == {" ", "\t", "\n", "\r", "\f", "<", ">", "\""}
RefPunct == {".", ",", ")", ";"}

\* An occurrence at p: the literal prefix followed by a query character.
RefOccurs(c, p) ==
  /\ p + Len(RefPrefix) <= Len(c)
  /\ \A k \in 1..Len(RefPrefix) : c[p + k - 1] = RefPrefix[k]
  /\ c[p + Len(RefPrefix)] \notin RefStops

\* None (<<>>) without an occurrence; else the first occurrence up to the
\* first stop character, its trailing punctuation removed.
RefLink(c) ==
  IF \A p \in 1..Len(c) : ~RefOccurs(c, p) THEN <<>>
  ELSE LET p == CHOOSE k \in 1..Len(c) :
                  RefOccurs(c, k) /\ \A m \in 1..(k - 1) : ~RefOccurs(c, m)
           e == CHOOSE j \in (p + Len(RefPrefix))..Len(c) :
                  /\ \A k \in p..j : c[k] \notin RefStops
                  /\ j = Len(c) \/ c[j + 1] \in RefStops
           n == CHOOSE j \in p..e :
                  /\ c[j] \notin RefPunct
                  /\ \A k \in (j + 1)..e : c[k] \in RefPunct
       IN [k \in 1..(n - p + 1) |-> c[p + k - 1]]

ExampleLink ==
  RefPrefix \o << "t","o","k","e","n","=","a","b","c","1","2","3" >>

NormField(fv) ==
  IF fv.kind \in {"absent", "null"} THEN <<>>
  ELSE IF fv.kind = "list" THEN Join(fv.frags)
  ELSE fv.frags[1]

\* The text and the markup field of a message: text and html of mail.tm,
\* data and html of Maildrop; of Temp-Mail.org mail_text, or text when
\* mail_text is absent or null, and body.
TextField(p, m) ==
  IF p = "tempmail_org"
    THEN (IF m.mail_text.kind \in {"absent", "null"} THEN m.text ELSE m.mail_text)
    ELSE m[1]
MarkupField(p, m) == IF p = "tempmail_org" THEN m.body ELSE m[2]

Normalized(p, m) ==
  NormField(TextField(p, m)) \o << "\n" >> \o NormField(MarkupField(p, m))

\* C12 (as claimed): for each of the three providers read_message returns
\* text + "\n" + markup of the message the backend answered with; an absent
\* or null field counts as the empty string and a field given as fragments
\* as their concatenation.
C12_ReadNormalizes ==
  pc = "read_returned" /\ Carries(provider, arg.id, arg.resp) =>
    ret = PyStr(Normalized(provider, Carried(provider, arg.id, arg.resp)))

\* ----------------------------------------------------------------- C13
\* What a run returns and what it wrote: True with its one line, or False
\* with nothing written.
RunOutcome ==
  /\ Len(logfile) <= 1
  /\ result = "True" <=> Len(logfile) = 1
  /\ Len(logfile) = 1 =>
       /\ logfile[1] = [address |-> email_address, url |-> link]
       /\ link # <<>> /\ email_address # NoEmail /\ email_address = email
  /\ result = "False" <=> exc # "none"
  /\ exc # "none" => logfile = <<>> /\ pc \in {"cleanup", "run_returned"}
  /\ pc = "run_returned" => result \in {"True", "False"}

\* After an exception was caught the run neither polls nor writes any more.
NoRetry ==
  exc # "none" =>
    UNCHANGED << logfile, pollHosts, tickReads, tickListed, tickSleeps, link,
                 exc, result >>

\* C13: run returns True exactly when it appended its one line
\* "<address>:<url>" with the address of its mailbox; when the poller times
\* out or an earlier step fails the run is aborted, the poll is not tried
\* again, run returns False and the log is not written.
C13_LogIffSuccess == []RunOutcome /\ [][NoRetry]_vars

\* A run with a Maildrop mailbox returned True with its line written.
C13_Witness ==
  /\ pc = "run_returned" /\ result = "True"
  /\ provider = "maildrop"
  /\ logfile = << [address |-> email_address, url |-> Link2] >>

\* ----------------------------------------------------------------- C14
\* A step leaves the log as it is, or save_link adds one line behind the
\* lines there were.
AppendsOnly ==
  \/ logfile' = logfile
  \/ /\ pc = "save_link"
     /\ Len(logfile') = Len(logfile) + 1
     /\ \A k \in 1..Len(logfile) : logfile'[k] = logfile[k]
     /\ logfile'[Len(logfile')] = [address |-> email_address, url |-> link]

\* C14: over the runs of main every save_link keeps the lines written
\* before, in place, and adds one line at the end; the log holds one line
\* for each run that wrote, so two runs that succeed leave two lines.
C14_AppendOnly ==
  /\ [][AppendsOnly]_vars
  /\ [](Len(logfile) <= i + (IF pc \in {"cleanup", "run_returned"} THEN 1 ELSE 0))

\* The second run has written its line behind the line of the first.
C14_Witness ==
  /\ pc = "run_returned" /\ i = 1
  /\ Len(logfile) = 2
  /\ logfile[1].url = Link1
  /\ logfile[2] = [address |-> email_address, url |-> Link2]

\* ----------------------------------------------------------------- C15
\* C15: every run of main's loop starts with a mailbox service whose
\* provider, email, token and password are unset, and with no address:
\* whatever a run reads of them it has written itself.
C15_FreshMailbox ==
  pc \in {"setup_driver", "create_email"} =>
    /\ provider = NoneVal /\ email = NoEmail
    /\ token = NoneVal /\ password = NoneVal
    /\ email_address = NoEmail

\* The second run starts unset after a first run that had a mail.tm mailbox
\* with token and password and wrote its line.
C15_Witness ==
  /\ pc = "create_email" /\ i = 1
  /\ Len(logfile) = 1 /\ logfile[1].address.domain = "mailtm.example"
  /\ provider = NoneVal /\ password = NoneVal /\ token = NoneVal

\* ----------------------------------------------------------------- C16
\* The backend answered, and the id asked for is not in the mailbox: the
\* listing of Temp-Mail.org arrived without it; mail.tm or Maildrop answered
\* with a JSON object that holds no message.
AnsweredWithout(p, id, r) ==
  /\ ~r.err
  /\ IF p = "tempmail_org"
       THEN r.ok /\ r.body = "array" /\ \A k \in 1..Len(r.items) : r.items[k].id # id
       ELSE r.body \in {"object", "null"} \/ (r.body = "wrapped" /\ r.items = <<>>)

\* C16 (as claimed): read_message for an id that the mailbox does not hold
\* fails with MessageNotFound and returns no content string, for each of the
\* three providers.
C16_AbsentIdNotFound ==
  pc = "read_returned" /\ AnsweredWithout(provider, arg.id, arg.resp) =>
    ret = Raised("MessageNotFound")

\* ----------------------------------------------------------------- C17
\* The poll of the run is over: get_activation_link returned or raised.
PollOver ==
  /\ formEmail # NoEmail
  /\ pc \in {"save_link", "cleanup", "run_returned"}

\* The exception that ended the run came out of a listing or a read of the
\* poll.
RaisedInTick ==
  raisedBy.at \in {"get_messages", "iterate_listing", "read_message", "re.search"}

PollStructure ==
  /\ pc \in {"poll_list", "poll_read", "poll_sleep"} =>
       tickStart < 300 /\ tickSleeps = 0 /\ link = <<>>
  /\ pc = "poll_sleep" => \A j \in 1..Len(tickReads) : tickReads[j].link = <<>>
  /\ pc = "poll_check" =>
       \/ tickSleeps = 0 /\ elapsed = 0 /\ tickListed = 0
       \/ tickSleeps = 1 /\ elapsed >= tickStart + 5
  /\ tickSleeps <= 1
  /\ PollOver =>
       link # <<>> \/ exc = "Timeout" \/ RaisedInTick \/ raisedBy.at = "save_link"

\* The steps of the loop: a listing follows a deadline check that found the
\* elapsed time below 300 s; a sleep follows a tick without a link, takes
\* 5 s and leads to the deadline check.
TickSteps ==
  /\ pc' = "poll_list" => pc = "poll_check" /\ elapsed < 300 /\ elapsed' = elapsed
  /\ pc' = "poll_sleep" /\ pc # "poll_sleep" =>
       pc \in {"poll_list", "poll_read"} /\ link' = <<>>
  /\ pc = "poll_sleep" /\ pc' # "poll_sleep" =>
       pc' = "poll_check" /\ elapsed' = elapsed + 5 /\ tickSleeps' = tickSleeps + 1
  /\ pc = "poll_check" /\ pc' # "poll_check" =>
       \/ pc' = "poll_list"
       \/ elapsed >= 300 /\ exc' = "Timeout"

StepOf(at) ==
  CASE at = "setup_driver" -> 1
    [] at \in CreatePcs -> 2
    [] at = "submit_email_form" -> 3
    [] at \in PollPcs \cup {"get_activation_link"} -> 4
    [] at = "save_link" -> 5
    [] at = "cleanup" -> 6
    [] OTHER -> 7

\* A step of the thread stays in its step of run, goes on to the next one,
\* or fails and goes to the finally clause.
InRunOrder ==
  \/ StepOf(pc') = StepOf(pc) /\ exc' = exc
  \/ StepOf(pc') = StepOf(pc) + 1 /\ exc' = exc
  \/ pc' = "cleanup" /\ exc = "none" /\ exc' # "none" /\ StepOf(pc) < 6

\* What has been done when the thread is at a step, and what has not.
StepsDone ==
  /\ StepOf(pc) \in 2..5 => driver = "live"
  /\ StepOf(pc) <= 2 => formEmail = NoEmail /\ pollHosts = {} /\ logfile = <<>>
  /\ StepOf(pc) = 3 =>
       /\ createCalls = 1 /\ email_address = email /\ email # NoEmail
       /\ formEmail = NoEmail /\ pollHosts = {} /\ logfile = <<>>
  /\ StepOf(pc) \in 4..5 =>
       /\ formEmail # NoEmail /\ formEmail = email_address /\ formEmail = email
       /\ logfile = <<>>
  /\ pollHosts # {} => formEmail # NoEmail
  /\ formEmail # NoEmail => formEmail = email_address /\ createCalls = 1
  /\ exc # "none" =>
       /\ pc \in {"cleanup", "run_returned"}
       /\ logfile = <<>>
       /\ raisedBy.at = "setup_driver" =>
            createCalls = 0 /\ email_address = NoEmail /\ formEmail = NoEmail
            /\ pollHosts = {} /\ link = <<>>
       /\ raisedBy.at = "submit_email_form" =>
            createCalls = 1 /\ formEmail = NoEmail /\ pollHosts = {} /\ link = <<>>
       /\ raisedBy.at \notin {"setup_driver", "submit_email_form", "save_link"} =>
            link = <<>>

\* C18: the steps of a run follow one another in the order driver setup,
\* creation of the mailbox, form submission, polling, saving of the link;
\* the poll begins after the form step returned, the address typed into the
\* form is the one create_email returned, and a step that fails is followed
\* by none of the later steps.
C18_StepOrder == []StepsDone /\ [][InRunOrder]_vars

\* The poll lists for the Temp-Mail.org address that was typed into the
\* form.
C18_Witness ==
  /\ pc = "poll_list" /\ elapsed = 0
  /\ provider = "tempmail_org"
  /\ formEmail = email /\ formEmail.domain = "temp-mail.org"

\* ----------------------------------------------------------------- C19
\* cleanup is the last step of the run and is taken once.
CleanupLast ==
  /\ cleanups = (IF pc = "run_returned" THEN 1 ELSE 0)
  /\ pc = "run_returned" =>
       /\ result \in {"True", "False"}
       /\ result = "False" <=> exc # "none"
       /\ driver \in {"none", "quit"}
       /\ driver = "none" => raisedBy.at = "setup_driver" /\ createCalls = 0
       /\ raisedBy.at # "setup_driver" => driver = "quit"
  /\ driver = "quit" => pc = "run_returned"
  /\ pc = "cleanup" => result \in {"True", "False"}

\* The finally clause leads to the return of run, and nothing of the run
\* follows it.
ReturnsAfterCleanup ==
  /\ pc = "cleanup" => pc' = "run_returned" /\ result' = result
  /\ pc = "run_returned" => pc' \notin {"cleanup"} \cup CreatePcs \cup PollPcs
                                      \cup {"submit_email_form", "save_link"}

\* C19: every run ends, with cleanup as its last step, taken once, whatever
\* the outcome; a driver that was built is quit; no exception of a step
\* leaves run, which returns True or False.
C19_CleanupOnce ==
  /\ []CleanupLast
  /\ [][ReturnsAfterCleanup]_vars
  /\ <>(pc = "run_returned")

\* A run that timed out has returned False with its driver quit.
C19_Witness ==
  /\ pc = "run_returned"
  /\ exc = "Timeout" /\ result = "False"
  /\ cleanups = 1 /\ driver = "quit"

\* ----------------------------------------------------------------- C20
\* C20 (as claimed): in mode "1" with the count n >= 0 main makes n runs and
\* leaves its loop, whatever the runs return; in mode "2" main never leaves
\* the loop.
C20_ExactlyCountRuns ==
  /\ mode = "1" /\ pc \notin {"main_input"} =>
       /\ i <= count
       /\ pc = "exit" => i = count
       /\ pc \notin {"main_loop", "exit"} => i < count
  /\ mode = "2" => pc # "exit"

====
